---- MODULE Spec2Model ----
(***************************************************************************)
(* A model of the social-account linking and video-publishing service:      *)
(* the /social router (src/social/router.py), the YouTube uploader          *)
(* (src/social/youtube_uploader.py) and the platform adapters               *)
(* (src/social/utils.py, src/social/platform_integrations.py).              *)
(*                                                                          *)
(* Strings that the code splits, truncates or cleans are sequences, so that *)
(* the operations on them are computed and not assumed.                     *)
(***************************************************************************)
EXTENDS Integers, Sequences, FiniteSets, TLC

\* ------------------------------------------------------------------ bounds
MaxAccounts == 2      \* SocialAccount rows the store may hold
MaxPosts    == 2      \* SocialPost rows the store may hold
MaxNonce    == 2      \* uuid4 values initiate_oauth may draw
MaxTime     == 1      \* the clock runs 0..MaxTime
MaxTries    == 2      \* chunk requests one upload may send before the model stops it
MaxOver     == 1      \* how far an input may exceed a truncation limit
MaxAdTries  == 4      \* failed chunk requests one upload_video call may see before the model stops it
MaxCaptcha  == 2      \* CAPTCHAs generate_captcha may issue
MaxClock    == 3      \* half lifetimes of a CAPTCHA the clock may advance

\* ------------------------------------------------------- values and inputs
None   == "None"      \* Python's None in a string-valued field
NoTime == -1          \* Python's None in a datetime field
NoState == <<>>      \* a missing or empty state parameter ("not state")
NoRow  == 0           \* no row: ids start at 1, and a uuid4 made for a result matches no row

Users      == {"u1", "u2"}                 \* rows of the users table (their uuids)
UuidLike   == Users \cup {"u9"}            \* strings uuid.UUID() accepts; u9 is no user
Channels   == {"UC1", "UC2"}               \* channel ids the provider may report
Codes      == {"code1"}
AccessToks == {"at1", "at2"}
RefreshToks == {None, "rt1"}

ChannelTitle(c) == IF c = "UC1" THEN "T1" ELSE "T2"

VARIABLES
    workers,      \* the deployment: how many server processes share the database
    now,          \* the wall clock (datetime.utcnow)
    accounts,     \* the social_accounts table: a set of rows
    posts,        \* the social_posts table: a set of rows
    nextId,       \* the next social_accounts primary key (uuid4 default)
    nextPost,     \* the next social_posts primary key (uuid4 default)
    issued,       \* history: the state strings initiate_oauth has returned
    presented,    \* history: the state strings a callback has already been given
    nonce,        \* uuid4 values drawn so far by initiate_oauth
    cb,           \* the OAuth callback requests in flight, one per worker
    resp,         \* the last response of a handler that runs in one step
    pub,          \* the publish request (create_posts) in flight
    uploader,     \* the process-global YouTubeUploader: its youtube_service
    ad,           \* an adapter-level publishVideo call in flight
    CAPTCHA_STORE, \* auth/utils.py: the process's dict of CAPTCHAs, as a set of entries
    captcha       \* the CAPTCHA ids drawn so far, and history: the verify calls made

vars == <<workers, now, accounts, posts, nextId, nextPost, issued, presented, nonce, cb, resp, pub,
          uploader, ad, CAPTCHA_STORE, captcha>>

Workers == {1, 2}

\* No CAPTCHA drawn, no verify call made.
NoCaptcha == [n |-> 0, used |-> {}, last |-> [id |-> 0, result |-> FALSE, again |-> FALSE]]

\* ----------------------------------------------------------------- helpers
Min(a, b) == IF a < b THEN a ELSE b

\* Python's s[:n]
Take(s, n) == SubSeq(s, 1, Min(Len(s), n))

IsPrefix(p, s) == Len(p) <= Len(s) /\ SubSeq(s, 1, Len(p)) = p

\* str.split(sep) on a string held as a sequence of atoms
RECURSIVE SplitAcc(_, _, _, _)
SplitAcc(s, sep, cur, acc) ==
    IF s = <<>> THEN Append(acc, cur)
    ELSE IF Head(s) = sep THEN SplitAcc(Tail(s), sep, <<>>, Append(acc, cur))
    ELSE SplitAcc(Tail(s), sep, Append(cur, Head(s)), acc)

Split(s, sep) == SplitAcc(s, sep, <<>>, <<>>)

\* f"{current_user.id}:youtube:{uuid.uuid4()}"
MakeState(user, n) == <<user, ":", "youtube", ":", n>>

\* db.query(SocialAccount).filter(user_id, platform == "youtube", primary_id)
MatchPrimary(rows, user, channel) ==
    {a \in rows : a.user_id = user /\ a.platform = "youtube" /\ a.primary_id = channel}

\* db.query(SocialAccount).filter(user_id, platform, platform_username)
MatchUsername(rows, user, platform, username) ==
    {a \in rows : a.user_id = user /\ a.platform = platform
                  /\ a.platform_username = username}

\* db.query(SocialAccount).filter(user_id, platform == "youtube", is_active)
ActiveYouTube(rows, user) ==
    {a \in rows : a.user_id = user /\ a.platform = "youtube" /\ a.is_active}

NewAccount(id, user, platform, primary, username, at, rt, exp) ==
    [id |-> id, user_id |-> user, platform |-> platform, primary_id |-> primary,
     platform_username |-> username, access_token |-> at, refresh_token |-> rt,
     token_expires_at |-> exp, is_active |-> TRUE]

\* ------------------------------------------------------- OAuth link flow
NonceName == <<"n1", "n2", "n3", "n4">>      \* the uuid4 values, in the order drawn

\* States nobody was issued: not three parts, no uuid, a uuid of no user, another
\* user's id with a made-up nonce, another platform.
Forged == { <<"garbage">>,
            <<"zz", ":", "youtube", ":", "n0">>,
            MakeState("u9", "n0"),
            MakeState("u2", "n0"),
            <<"u1", ":", "linkedin", ":", "n0">> }

CbIdle == [pc |-> "idle", state |-> <<>>, error |-> None, replay |-> FALSE, user |-> None,
           at |-> None, rt |-> None, ein |-> 0, channel |-> None,
           existing |-> NoRow, outcome |-> None, calls |-> <<>>]

CbDone(c, outcome) == [c EXCEPT !.pc = "done", !.outcome = outcome]

InFlight == Cardinality({w \in Workers : cb[w].pc \notin {"idle", "done"}})

\* Every handler is an "async def" that never awaits: a server process runs one
\* request to its response before it takes the next. Publish requests and the
\* one-step handlers are served by process 1.
Free(w) == w <= workers /\ cb[w].pc = "idle" /\ (w = 1 => pub.pc = "idle")

Quiet == Free(1)

\* GET /social/auth/{platform}: builds the state and the URL; nothing is stored.
InitiateOAuth(user, platform) ==
    /\ \E w \in Workers : Free(w)
    /\ nonce < MaxNonce
    /\ IF platform = "youtube"
       THEN /\ nonce' = nonce + 1
            /\ issued' = issued \cup {MakeState(user, NonceName[nonce + 1])}
            /\ resp' = [handler |-> "auth", status |-> 200, detail |-> "auth_url"]
       ELSE /\ resp' = [handler |-> "auth", status |-> 200, detail |-> "null"]
            /\ UNCHANGED <<nonce, issued>>
    /\ UNCHANGED <<CAPTCHA_STORE, captcha, workers, now, accounts, posts, nextId, nextPost, presented, cb, pub, uploader, ad>>

\* A faulty callback that does not look at the error parameter.
CbReceiveIgnoresError(w, code, state, error) ==
    /\ Free(w)
    /\ nextId + InFlight <= MaxAccounts
    /\ presented' = presented \cup ({state} \cap issued)
    /\ LET c0 == [CbIdle EXCEPT !.state = state, !.error = error,
                                !.replay = state \in presented]
           parts == Split(state, ":")
       IN cb' = [cb EXCEPT ![w] =
            IF code = None \/ state = NoState
            THEN CbDone(c0, "missing_code_or_state")
            ELSE IF Len(parts) # 3 \/ parts[1] \notin {<<u>> : u \in UuidLike}
                 THEN CbDone(c0, "ValueError")
            ELSE [c0 EXCEPT !.pc = "exchange", !.user = parts[1][1]]]
    /\ UNCHANGED <<CAPTCHA_STORE, captcha, workers, now, accounts, posts, nextId, nextPost, issued, nonce, resp, pub, uploader, ad>>

\* The callback up to the token request: the error and missing-parameter returns,
\* then state.split(":") into exactly three parts and uuid.UUID(user_id_str).
CbReceive(w, code, state, error) ==
    /\ Free(w)
    /\ nextId + InFlight <= MaxAccounts
    /\ presented' = presented \cup ({state} \cap issued)
    /\ LET c0 == [CbIdle EXCEPT !.state = state, !.error = error,
                                !.replay = state \in presented]
           parts == Split(state, ":")
       IN cb' = [cb EXCEPT ![w] =
            IF error # None THEN CbDone(c0, "denied")
            ELSE IF code = None \/ state = NoState
                 THEN CbDone(c0, "missing_code_or_state")
            ELSE IF Len(parts) # 3 \/ parts[1] \notin {<<u>> : u \in UuidLike}
                 THEN CbDone(c0, "ValueError")
            ELSE [c0 EXCEPT !.pc = "exchange", !.user = parts[1][1]]]
    /\ UNCHANGED <<CAPTCHA_STORE, captcha, workers, now, accounts, posts, nextId, nextPost, issued, nonce, resp, pub, uploader, ad>>

\* requests.post(token endpoint): 200 with tokens, or any other status.
CbExchange(w, ok, at, rt, ein) ==
    /\ cb[w].pc = "exchange"
    /\ cb' = [cb EXCEPT ![w] =
            LET c1 == [cb[w] EXCEPT !.calls = Append(@, "exchange")]
            IN IF ok THEN [c1 EXCEPT !.pc = "channel", !.at = at, !.rt = rt, !.ein = ein]
               ELSE CbDone(c1, "token_exchange_failed")]
    /\ UNCHANGED <<CAPTCHA_STORE, captcha, workers, now, accounts, posts, nextId, nextPost, issued, presented, nonce, resp, pub,
                   uploader, ad>>

\* A faulty callback that stores the tokens as soon as it holds them, before the
\* channel is known.
CbChannelStoresFirst(w, channel) ==
    /\ cb[w].pc = "channel"
    /\ accounts' = accounts \cup
          {NewAccount(nextId, cb[w].user, "youtube", None, None, cb[w].at, cb[w].rt, now)}
    /\ nextId' = nextId + 1
    /\ cb' = [cb EXCEPT ![w] =
            LET c1 == [cb[w] EXCEPT !.calls = Append(@, "channels")]
            IN IF channel # None THEN [c1 EXCEPT !.pc = "query", !.channel = channel]
               ELSE CbDone(c1, "channel_fetch_failed")]
    /\ UNCHANGED <<CAPTCHA_STORE, captcha, workers, now, posts, nextPost, issued, presented, nonce, resp, pub,
                   uploader, ad>>

\* requests.get(channels, mine=true): 200 with a channel, or 200 with no items, or
\* another status (both end as channel_fetch_failed).
CbChannel(w, channel) ==
    /\ cb[w].pc = "channel"
    /\ cb' = [cb EXCEPT ![w] =
            LET c1 == [cb[w] EXCEPT !.calls = Append(@, "channels")]
            IN IF channel # None THEN [c1 EXCEPT !.pc = "query", !.channel = channel]
               ELSE CbDone(c1, "channel_fetch_failed")]
    /\ UNCHANGED <<CAPTCHA_STORE, captcha, workers, now, accounts, posts, nextId, nextPost, issued, presented, nonce, resp, pub,
                   uploader, ad>>

\* existing_account = db.query(...).first(): no ORDER BY, so any matching row.
CbQuery(w) ==
    /\ cb[w].pc = "query"
    /\ LET m == MatchPrimary(accounts, cb[w].user, cb[w].channel)
       IN \E e \in (IF m = {} THEN {NoRow} ELSE {a.id : a \in m}) :
            cb' = [cb EXCEPT ![w] = [@ EXCEPT !.pc = "commit", !.existing = e]]
    /\ UNCHANGED <<CAPTCHA_STORE, captcha, workers, now, accounts, posts, nextId, nextPost, issued, presented, nonce, resp, pub,
                   uploader, ad>>

\* The row as the update branch leaves it.
Relinked(a, at, rt, exp) ==
    [a EXCEPT !.access_token = at, !.refresh_token = rt, !.token_expires_at = exp]

\* The update-or-insert and db.commit(). The tables declare no unique key on
\* (user_id, platform, primary_id), so the insert is refused only by the foreign
\* key on users; a refused or stale write raises and ends in the except branch,
\* which reports str(e).
CbCommit(w) ==
    /\ cb[w].pc = "commit"
    /\ LET c == cb[w]
           exp == now + c.ein
       IN IF c.existing # NoRow
          THEN IF \E a \in accounts : a.id = c.existing
               THEN /\ accounts' = {IF a.id = c.existing
                                    THEN Relinked(a, c.at, c.rt, exp) ELSE a
                                    : a \in accounts}
                    /\ cb' = [cb EXCEPT ![w] = CbDone(c, "success")]
                    /\ UNCHANGED nextId
               ELSE /\ cb' = [cb EXCEPT ![w] = CbDone(c, "StaleDataError")]
                    /\ UNCHANGED <<accounts, nextId>>
          ELSE IF c.user \in Users
               THEN /\ accounts' = accounts \cup
                         {NewAccount(nextId, c.user, "youtube", c.channel,
                                     ChannelTitle(c.channel), c.at, c.rt, exp)}
                    /\ nextId' = nextId + 1
                    /\ cb' = [cb EXCEPT ![w] = CbDone(c, "success")]
               ELSE /\ cb' = [cb EXCEPT ![w] = CbDone(c, "IntegrityError")]
                    /\ UNCHANGED <<accounts, nextId>>
    /\ UNCHANGED <<CAPTCHA_STORE, captcha, workers, now, posts, nextPost, issued, presented, nonce, resp, pub, uploader, ad>>

\* The RedirectResponse leaves; the worker is free again.
CbReturn(w) ==
    /\ cb[w].pc = "done"
    /\ cb' = [cb EXCEPT ![w] = CbIdle]
    /\ resp' = [handler |-> "callback", status |-> 302, detail |-> cb[w].outcome]
    /\ UNCHANGED <<CAPTCHA_STORE, captcha, workers, now, accounts, posts, nextId, nextPost, issued, presented, nonce, pub,
                   uploader, ad>>


\* ------------------------------------------- handlers that run in one step
\* POST /social/auth/youtube/exchange-token. The state is only tested for presence.
\* An HTTPException raised inside the try block is caught by "except Exception"
\* and leaves as a 500.
ExchangeToken(user, code, state, ok, at, rt, ein, channel) ==
    /\ Quiet
    /\ nextId <= MaxAccounts
    /\ IF code = None \/ state = NoState
       THEN /\ resp' = [handler |-> "exchange", status |-> 400,
                        detail |-> "Missing code or state"]
            /\ UNCHANGED <<accounts, nextId>>
       ELSE IF ~ok \/ channel = None
       THEN /\ resp' = [handler |-> "exchange", status |-> 500,
                        detail |-> IF ~ok THEN "Failed to exchange code for tokens"
                                   ELSE "Failed to get YouTube channel information"]
            /\ UNCHANGED <<accounts, nextId>>
       ELSE LET m == MatchPrimary(accounts, user, channel)
                exp == now + ein
            IN /\ resp' = [handler |-> "exchange", status |-> 200, detail |-> "success"]
               /\ IF m # {}
                  THEN /\ \E e \in m :
                            accounts' = (accounts \ {e}) \cup {Relinked(e, at, rt, exp)}
                       /\ UNCHANGED nextId
                  ELSE /\ accounts' = accounts \cup
                            {NewAccount(nextId, user, "youtube", channel,
                                        ChannelTitle(channel), at, rt, exp)}
                       /\ nextId' = nextId + 1
    /\ UNCHANGED <<CAPTCHA_STORE, captcha, workers, now, posts, nextPost, issued, presented, nonce, cb, pub, uploader, ad>>

\* POST /social/youtube/connect-simple: the channel looked up by name is inserted
\* without any query for an existing row.
ConnectSimple(user, name, channel) ==
    /\ Quiet
    /\ nextId <= MaxAccounts
    /\ IF name = None
       THEN /\ resp' = [handler |-> "connect", status |-> 400,
                        detail |-> "Channel name required"]
            /\ UNCHANGED <<accounts, nextId>>
       ELSE IF channel = None
       THEN /\ resp' = [handler |-> "connect", status |-> 404,
                        detail |-> "Channel not found"]
            /\ UNCHANGED <<accounts, nextId>>
       ELSE /\ accounts' = accounts \cup
                  {NewAccount(nextId, user, "youtube", channel, name,
                              "simple_api_key_connection", None, NoTime)}
            /\ nextId' = nextId + 1
            /\ resp' = [handler |-> "connect", status |-> 200, detail |-> "success"]
    /\ UNCHANGED <<CAPTCHA_STORE, captcha, workers, now, posts, nextPost, issued, presented, nonce, cb, pub, uploader, ad>>

PLATFORM_CONFIGS == {"youtube", "instagram", "facebook", "linkedin", "tiktok", "twitter"}

\* POST /social/accounts/add: refused for an unknown platform or when the user has
\* a row of that platform with the same username; the primary id is not compared.
AddManual(user, platform, username, primary, at, rt, exp) ==
    /\ Quiet
    /\ nextId <= MaxAccounts
    /\ IF platform \notin PLATFORM_CONFIGS
       THEN /\ resp' = [handler |-> "add", status |-> 400,
                        detail |-> "Unsupported platform"]
            /\ UNCHANGED <<accounts, nextId>>
       ELSE IF MatchUsername(accounts, user, platform, username) # {}
       THEN /\ resp' = [handler |-> "add", status |-> 400,
                        detail |-> "Account already exists"]
            /\ UNCHANGED <<accounts, nextId>>
       ELSE /\ accounts' = accounts \cup
                  {NewAccount(nextId, user, platform, primary, username, at, rt, exp)}
            /\ nextId' = nextId + 1
            /\ resp' = [handler |-> "add", status |-> 200, detail |-> "success"]
    /\ UNCHANGED <<CAPTCHA_STORE, captcha, workers, now, posts, nextPost, issued, presented, nonce, cb, pub, uploader, ad>>

\* A faulty removal that looks the row up by its id alone.
DeleteAccountAnyOwner(user, id) ==
    /\ Quiet
    /\ LET m == {a \in accounts : a.id = id}
       IN IF m = {}
          THEN /\ resp' = [handler |-> "delete", status |-> 404,
                           detail |-> "Social account not found"]
               /\ UNCHANGED <<accounts, posts>>
          ELSE /\ accounts' = accounts \ m
               /\ posts' = {p \in posts : p.account_id # id}
               /\ resp' = [handler |-> "delete", status |-> 200, detail |-> "deleted"]
    /\ UNCHANGED <<CAPTCHA_STORE, captcha, workers, now, nextId, nextPost, issued, presented, nonce, cb, pub, uploader, ad>>

\* A faulty removal that deletes the account row and leaves its posts behind.
DeleteAccountKeepsPosts(user, id) ==
    /\ Quiet
    /\ LET m == {a \in accounts : a.id = id /\ a.user_id = user}
       IN IF m = {}
          THEN /\ resp' = [handler |-> "delete", status |-> 404,
                           detail |-> "Social account not found"]
               /\ UNCHANGED accounts
          ELSE /\ accounts' = accounts \ m
               /\ resp' = [handler |-> "delete", status |-> 200, detail |-> "deleted"]
    /\ UNCHANGED <<CAPTCHA_STORE, captcha, workers, now, posts, nextId, nextPost, issued, presented, nonce, cb, pub, uploader, ad>>

\* DELETE /social/accounts/{id}: the caller's own row, with its posts
\* (cascade="all, delete-orphan").
DeleteAccount(user, id) ==
    /\ Quiet
    /\ LET m == {a \in accounts : a.id = id /\ a.user_id = user}
       IN IF m = {}
          THEN /\ resp' = [handler |-> "delete", status |-> 404,
                           detail |-> "Social account not found"]
               /\ UNCHANGED <<accounts, posts>>
          ELSE /\ accounts' = accounts \ m
               /\ posts' = {p \in posts : p.account_id # id}
               /\ resp' = [handler |-> "delete", status |-> 200, detail |-> "deleted"]
    /\ UNCHANGED <<CAPTCHA_STORE, captcha, workers, now, nextId, nextPost, issued, presented, nonce, cb, pub, uploader, ad>>

\* ------------------------------------------------ publish (create_posts)
\* The videos table and the generated_videos directory (collaborators): v2 has a
\* row but no file on disk.
Videos == { [task_id |-> "v1", user_id |-> "u1", id |-> 1, on_disk |-> TRUE],
            [task_id |-> "v2", user_id |-> "u1", id |-> 2, on_disk |-> FALSE],
            [task_id |-> "v3", user_id |-> "u2", id |-> 3, on_disk |-> TRUE] }

\* POST /social/youtube/upload-redirect: the video and the active YouTube account
\* are looked up inside the try block, so the HTTPException raised for a missing
\* one is caught by "except Exception" and leaves as a 500. Otherwise a post row
\* is committed with status "redirect_ready" and the Studio URL is returned.
UploadRedirect(user, video) ==
    /\ Quiet
    /\ nextPost <= MaxPosts
    /\ LET vs == {v \in Videos : v.task_id = video /\ v.user_id = user}
           as == ActiveYouTube(accounts, user)
       IN IF vs = {} \/ as = {}
          THEN /\ resp' = [handler |-> "redirect", status |-> 500,
                           detail |-> IF vs = {} THEN "Video not found"
                                      ELSE "No YouTube account connected"]
               /\ UNCHANGED <<posts, nextPost>>
          ELSE \E v \in vs, a \in as :
               /\ posts' = posts \cup
                     {[id |-> nextPost, account_id |-> a.id, video_id |-> v.id,
                       status |-> "redirect_ready", platform_post_id |-> None,
                       post_url |-> None, posted_at |-> NoTime,
                       error_message |-> None]}
               /\ nextPost' = nextPost + 1
               /\ resp' = [handler |-> "redirect", status |-> 200, detail |-> "upload_url"]
    /\ UNCHANGED <<CAPTCHA_STORE, captcha, workers, now, accounts, nextId, issued, presented, nonce, cb, pub, uploader, ad>>

\* request.platforms: min_items = 1
PlatformLists == { <<"youtube">>, <<"linkedin">>, <<"youtube", "linkedin">>,
                   <<"linkedin", "youtube">>, <<"youtube", "youtube">> }

NoService == [built |-> FALSE, token |-> None, refresh_token |-> None,
              expiry |-> NoTime]

PubIdle == [pc |-> "idle", user |-> None, video |-> None, platforms |-> <<>>, i |-> 0,
            results |-> <<>>, post |-> NoRow, tok |-> None, rt |-> None,
            stale |-> FALSE, tries |-> 0, spin |-> FALSE, net |-> <<>>,
            sched |-> NoTime]

CountOf(seq, x) == Cardinality({k \in 1..Len(seq) : seq[k] = x})

\* The request body is validated and the handler starts; request.scheduled_for
\* is a field of the body that create_posts never reads.
PublishReceive(user, video, platforms, sched) ==
    /\ Quiet
    /\ nextPost - 1 + CountOf(platforms, "youtube") <= MaxPosts
    /\ pub' = [PubIdle EXCEPT !.pc = "loop", !.user = user, !.video = video,
                              !.platforms = platforms, !.i = 1, !.sched = sched]
    /\ UNCHANGED <<CAPTCHA_STORE, captcha, workers, now, accounts, posts, nextId, nextPost, issued, presented, nonce, cb, resp,
                   uploader, ad>>

\* PostResponse(id=str(uuid.uuid4()), status="failed") of the outer except branch
ErrorResult(err) ==
    [id |-> NoRow, platform |-> "youtube", status |-> "failed",
     platform_post_id |-> None, error_message |-> err]

\* "else: pass": a platform other than youtube adds nothing to response_posts.
PubSkip ==
    /\ pub.pc = "loop" /\ pub.i <= Len(pub.platforms)
    /\ pub.platforms[pub.i] # "youtube"
    /\ pub' = [pub EXCEPT !.i = @ + 1]
    /\ UNCHANGED <<CAPTCHA_STORE, captcha, workers, now, accounts, posts, nextId, nextPost, issued, presented, nonce, cb, resp,
                   uploader, ad>>

\* The video and the active YouTube account are looked up; either missing raises
\* into the outer except branch. Otherwise the post row is added as "uploading".
PubResolve ==
    /\ pub.pc = "loop" /\ pub.i <= Len(pub.platforms)
    /\ pub.platforms[pub.i] = "youtube"
    /\ LET vs == {v \in Videos : v.task_id = pub.video /\ v.user_id = pub.user}
           as == ActiveYouTube(accounts, pub.user)
       IN IF vs = {} \/ as = {}
          THEN /\ pub' = [pub EXCEPT !.i = @ + 1, !.results = Append(@, ErrorResult(
                              IF vs = {} THEN "YouTube error: Video not found"
                              ELSE "YouTube error: No YouTube account connected"))]
               /\ UNCHANGED <<posts, nextPost>>
          ELSE \E v \in vs, a \in as :
               /\ posts' = posts \cup
                     {[id |-> nextPost, account_id |-> a.id, video_id |-> v.id,
                       status |-> "uploading", platform_post_id |-> None,
                       post_url |-> None, posted_at |-> NoTime,
                       error_message |-> None]}
               /\ nextPost' = nextPost + 1
               /\ pub' = [pub EXCEPT !.pc = "auth", !.post = nextPost,
                            !.tok = a.access_token, !.rt = a.refresh_token,
                            !.stale = (a.token_expires_at # NoTime
                                       /\ a.token_expires_at <= now),
                            !.tries = 0, !.net = <<>>]
    /\ UNCHANGED <<CAPTCHA_STORE, captcha, workers, now, accounts, nextId, issued, presented, nonce, cb, resp, uploader, ad>>

\* google.oauth2 Credentials as the code builds them: token and refresh token, no
\* expiry argument.
MakeCreds(token, refresh) == [built |-> TRUE, token |-> token, refresh_token |-> refresh,
                              expiry |-> NoTime]

\* creds.expired: never true of credentials that carry no expiry.
CredsExpired(creds, t) == creds.expiry # NoTime /\ creds.expiry <= t

\* A faulty update that writes the outcome into every row of the table.
SetEveryPost(rows, id, status, ppid, url, at, err) ==
    {[p EXCEPT !.status = status, !.platform_post_id = ppid, !.post_url = url,
               !.posted_at = at, !.error_message = err] : p \in rows}

SetPost(rows, id, status, ppid, url, at, err) ==
    {IF p.id = id
     THEN [p EXCEPT !.status = status, !.platform_post_id = ppid, !.post_url = url,
                    !.posted_at = at, !.error_message = err]
     ELSE p : p \in rows}

\* A faulty authenticate that keeps the service the global uploader already has.
PubAuthenticateOnce(ok) ==
    /\ pub.pc = "auth"
    /\ IF ok
       THEN /\ uploader' = IF uploader.built THEN uploader ELSE MakeCreds(pub.tok, pub.rt)
            /\ pub' = [pub EXCEPT !.pc = "file"]
            /\ UNCHANGED posts
       ELSE /\ posts' = SetPost(posts, pub.post, "failed", None, None, NoTime,
                                "YouTube authentication failed")
            /\ pub' = [pub EXCEPT !.pc = "loop", !.i = @ + 1, !.results = Append(@,
                           ErrorResult("YouTube error: YouTube authentication failed"))]
            /\ UNCHANGED uploader
    /\ UNCHANGED <<CAPTCHA_STORE, captcha, workers, now, accounts, nextId, nextPost, issued, presented, nonce, cb, resp, ad>>

\* authenticate_with_token: the credentials replace the global uploader's service;
\* False only when building them raised. On False the post is committed as failed
\* and the raise reaches the outer except branch.
PubAuthenticate(ok) ==
    /\ pub.pc = "auth"
    /\ IF ok
       THEN /\ uploader' = MakeCreds(pub.tok, pub.rt)
            /\ pub' = [pub EXCEPT !.pc = "file"]
            /\ UNCHANGED posts
       ELSE /\ posts' = SetPost(posts, pub.post, "failed", None, None, NoTime,
                                "YouTube authentication failed")
            /\ pub' = [pub EXCEPT !.pc = "loop", !.i = @ + 1, !.results = Append(@,
                           ErrorResult("YouTube error: YouTube authentication failed"))]
            /\ UNCHANGED uploader
    /\ UNCHANGED <<CAPTCHA_STORE, captcha, workers, now, accounts, nextId, nextPost, issued, presented, nonce, cb, resp, ad>>

\* A faulty update that records the outcome in the status column alone.
FinishStatusOnly(success, err, sent) ==
    /\ posts' = {IF p.id = pub.post
                 THEN [p EXCEPT !.status = IF success THEN "posted" ELSE "failed"]
                 ELSE p : p \in posts}
    /\ pub' = [pub EXCEPT !.pc = "loop", !.i = @ + 1,
                 !.net = sent, !.spin = FALSE,
                 !.results = Append(@,
                    [id |-> pub.post, platform |-> "youtube",
                     status |-> IF success THEN "posted" ELSE "failed",
                     platform_post_id |-> IF success THEN "yt_id" ELSE None,
                     error_message |-> IF success THEN None ELSE err])]

\* "Update post based on upload result", the result appended with the post's id,
\* and the final db.commit().
Finish(success, err, sent) ==
    /\ posts' = IF success
                THEN SetPost(posts, pub.post, "posted", "yt_id", "watch?v=yt_id", now, None)
                ELSE SetPost(posts, pub.post, "failed", None, None, NoTime, err)
    /\ pub' = [pub EXCEPT !.pc = "loop", !.i = @ + 1,
                 !.net = sent, !.spin = FALSE,
                 !.results = Append(@,
                    [id |-> pub.post, platform |-> "youtube",
                     status |-> IF success THEN "posted" ELSE "failed",
                     platform_post_id |-> IF success THEN "yt_id" ELSE None,
                     error_message |-> IF success THEN None ELSE err])]

\* os.path.exists(full_video_path) in create_posts, then the entry of
\* upload_video: its own two early returns, the request body, the media object.
\* The transport refreshes before a request only when the credentials themselves
\* report expired.
PubCheckFile ==
    /\ pub.pc = "file"
    /\ LET v == CHOOSE v \in Videos : v.task_id = pub.video /\ v.user_id = pub.user
       IN IF ~v.on_disk THEN Finish(FALSE, "Video file not found", pub.net)
          ELSE IF ~uploader.built THEN Finish(FALSE, "Not authenticated", pub.net)
          ELSE /\ pub' = [pub EXCEPT !.pc = IF CredsExpired(uploader, now)
                                               /\ uploader.refresh_token # None
                                            THEN "refresh" ELSE "chunk"]
               /\ UNCHANGED posts
    /\ UNCHANGED <<CAPTCHA_STORE, captcha, workers, now, accounts, nextId, nextPost, issued, presented, nonce, cb, resp, uploader, ad>>

ChunkResponses == {"id", "noid", "unauthorized", "status5xx", "status4xx", "neterror"}

\* One request.next_chunk(): a request that carries the service's token. A
\* response ends the loop; every exception is logged and the loop continues, with
\* no count and no limit. On a 401 the authorized transport refreshes when a
\* refresh token is held. The model records the first MaxTries failed requests in
\* pub.net and pub.tries; of the failed requests after those it keeps the parity
\* (pub.spin).
PubNextChunk(r) ==
    /\ pub.pc = "chunk"
    /\ LET sent == Append(pub.net, [kind |-> "upload", token |-> uploader.token])
       IN IF r = "id"
          THEN Finish(TRUE, None, sent)
          ELSE IF r = "noid"
          THEN Finish(FALSE, "Upload completed but no video ID received", sent)
          ELSE IF pub.tries < MaxTries
          THEN /\ pub' = [pub EXCEPT !.net = sent, !.tries = @ + 1,
                            !.pc = IF r = "unauthorized" /\ uploader.refresh_token # None
                                   THEN "refresh" ELSE "chunk"]
               /\ UNCHANGED posts
          ELSE /\ pub' = [pub EXCEPT !.spin = ~@]
               /\ UNCHANGED posts
    /\ UNCHANGED <<CAPTCHA_STORE, captcha, workers, now, accounts, nextId, nextPost, issued, presented, nonce, cb, resp, uploader, ad>>

\* The transport's refresh after a 401: on success the request is sent again with
\* the new token; a failed refresh raises inside next_chunk.
PubLibRefresh(ok, newtok) ==
    /\ pub.pc = "refresh"
    /\ pub' = [pub EXCEPT !.pc = "chunk",
                 !.net = Append(@, [kind |-> "refresh", token |-> uploader.refresh_token])]
    /\ uploader' = IF ok THEN [uploader EXCEPT !.token = newtok] ELSE uploader
    /\ UNCHANGED <<CAPTCHA_STORE, captcha, workers, now, accounts, posts, nextId, nextPost, issued, presented, nonce, cb, resp, ad>>

\* The for loop is over: return response_posts.
PubLoopEnd ==
    /\ pub.pc = "loop" /\ pub.i > Len(pub.platforms)
    /\ pub' = [pub EXCEPT !.pc = "done"]
    /\ UNCHANGED <<CAPTCHA_STORE, captcha, workers, now, accounts, posts, nextId, nextPost, issued, presented, nonce, cb, resp,
                   uploader, ad>>

PublishReturn ==
    /\ pub.pc = "done"
    /\ pub' = PubIdle
    /\ resp' = [handler |-> "post", status |-> 200, detail |-> "response_posts"]
    /\ UNCHANGED <<CAPTCHA_STORE, captcha, workers, now, accounts, posts, nextId, nextPost, issued, presented, nonce, cb, uploader, ad>>

\* Time passes.
Tick ==
    /\ now < MaxTime
    /\ now' = now + 1
    /\ UNCHANGED <<CAPTCHA_STORE, captcha, workers, accounts, posts, nextId, nextPost, issued, presented, nonce,
                   cb, resp, pub, uploader, ad>>

\* ------------------------------------------ the YouTube publish adapters
\* Three implementations of "publish a video to YouTube":
\*   "uploader"     YouTubeUploader.upload_video     (youtube_uploader.py)
\*   "api"          YouTubeAPI.upload_video          (utils.py)
\*   "integration"  YouTubeIntegration.post_video    (platform_integrations.py)
Impls == {"uploader", "api", "integration"}

MAX_FILE_SIZE_GIB == 128     \* MAX_FILE_SIZE = 128 * 1024 * 1024 * 1024 bytes
MAX_RETRIES == 3
TitleLimit == 100
DescriptionLimit == 5000
TagLimit == 50
IntegrationTagCut == 500

\* A file size is whole GiB plus a rest of bytes below one GiB.
\* file_size > MAX_FILE_SIZE
OverLimit(size) ==
    size.gib > MAX_FILE_SIZE_GIB \/ (size.gib = MAX_FILE_SIZE_GIB /\ size.rest > 0)

Chars == <<"a", "#", " ">>
Str(n) == [k \in 1..n |-> Chars[(k % 3) + 1]]

TagShapes == << <<"#", "a">>, <<"b", " ">>, <<" ">>, <<"#">> >>
TagList(n) == [k \in 1..n |-> TagShapes[(k % 4) + 1]]

\* str.replace(c, "")
Remove(str, c) == SelectSeq(str, LAMBDA x : x # c)

\* str.strip()
RECURSIVE LStrip(_)
LStrip(str) == IF str # <<>> /\ Head(str) = " " THEN LStrip(Tail(str)) ELSE str

RECURSIVE RStrip(_)
RStrip(str) ==
    IF str # <<>> /\ str[Len(str)] = " " THEN RStrip(SubSeq(str, 1, Len(str) - 1)) ELSE str

Strip(str) == LStrip(RStrip(str))

\* [tag.replace("#", "").strip() for tag in tags if tag.strip()][:50]
UploaderTags(tags) ==
    LET kept == SelectSeq(tags, LAMBDA t : Strip(t) # <<>>)
    IN Take([k \in 1..Len(kept) |-> Strip(Remove(kept[k], "#"))], TagLimit)

\* tags[:50] if tags else []
ApiTags(tags) == Take(tags, TagLimit)

\* [tag.replace("#", "") for tag in post_data["tags"][:500]]
IntegrationTags(tags) ==
    LET cut == Take(tags, IntegrationTagCut)
    IN [k \in 1..Len(cut) |-> Remove(cut[k], "#")]

\* The snippet of the request body, as each implementation builds it.
Body(impl, title, desc, tags) ==
    [title |-> Take(title, TitleLimit),
     description |-> Take(desc, DescriptionLimit),
     tags |-> IF impl = "uploader" THEN UploaderTags(tags)
              ELSE IF impl = "api" THEN ApiTags(tags)
              ELSE IntegrationTags(tags)]

NoBody == [title |-> <<>>, description |-> <<>>, tags |-> <<>>]

RETRIABLE == {"status5xx"}     \* RETRIABLE_STATUS_CODES = [500, 502, 503, 504]

AdEnd(a, success, err) == [a EXCEPT !.pc = "done", !.success = success, !.error = err]

\* The two handlers that close YouTubeUploader.upload_video's try block. The
\* HttpError handler decodes the error body with json.loads; what that raises
\* leaves the function.
UploaderHandler(a, exc) ==
    IF exc = "HttpError"
    THEN IF a.json THEN AdEnd(a, FALSE, "YouTube API error")
         ELSE [a EXCEPT !.pc = "raised"]
    ELSE AdEnd(a, FALSE, exc)

\* "except Exception as chunk_error: ... continue" inside the chunk loop.
UploaderChunkError(a, r) == [a EXCEPT !.retry = @ + 1]

\* YouTubeAPI.upload_video's handlers inside the loop: a retriable HttpError is
\* counted and the loop goes on until the count passes MAX_RETRIES; every other
\* exception is raised again, into the function's own except branch.
ApiChunkError(a, r) ==
    IF r \in RETRIABLE
    THEN IF a.retry + 1 > MAX_RETRIES
         THEN AdEnd([a EXCEPT !.retry = @ + 1], FALSE, "Max retries exceeded")
         ELSE [a EXCEPT !.retry = @ + 1]
    ELSE AdEnd(a, FALSE, r)

\* The call up to its first request: the early returns, the request body, and the
\* media object (opening the file may raise). Only YouTubeAPI.upload_video looks at
\* the file's size; post_video does not touch the file before its session request.
AdEnter(c) ==
    /\ ad.pc = "start"
    /\ ad.impl \in Impls
    /\ LET built == [ad EXCEPT !.body = Body(ad.impl, ad.title, ad.desc, ad.tags)]
       IN ad' =
          IF ad.impl = "api"
          THEN IF ~ad.exists THEN AdEnd(ad, FALSE, "Video file not found")
               ELSE IF OverLimit(ad.size)
                    THEN AdEnd(ad, FALSE, "Video file exceeds YouTube size limit (128GB)")
               ELSE IF c # "ok" THEN AdEnd(built, FALSE, c)
               ELSE [built EXCEPT !.pc = "chunk"]
          ELSE IF ad.impl = "uploader"
          THEN IF ~ad.authed THEN AdEnd(ad, FALSE, "Not authenticated")
               ELSE IF ~ad.exists THEN AdEnd(ad, FALSE, "Video file not found")
               ELSE IF c # "ok" THEN UploaderHandler(built, c)
               ELSE [built EXCEPT !.pc = "chunk"]
          ELSE [built EXCEPT !.pc = "session"]
    /\ UNCHANGED <<CAPTCHA_STORE, captcha, workers, now, accounts, posts, nextId, nextPost, issued, presented,
                   nonce, cb, resp, pub, uploader>>

\* post_video's metadata request: 200/201 with a Location header leads to
\* _upload_video_file, which opens the file; anything else is a failure result.
AdSession(r) ==
    /\ ad.pc = "session"
    /\ LET a == [ad EXCEPT !.net = Append(@, "session")]
       IN ad' = IF r # "location" THEN AdEnd(a, FALSE, "YouTube upload failed")
                ELSE IF ~ad.exists THEN AdEnd(a, FALSE, "No such file or directory")
                ELSE [a EXCEPT !.pc = "chunk"]
    /\ UNCHANGED <<CAPTCHA_STORE, captcha, workers, now, accounts, posts, nextId, nextPost, issued, presented,
                   nonce, cb, resp, pub, uploader>>

\* One transfer request and what each implementation does with its outcome.
\* _upload_video_file sends the file once and raises on any other status, into
\* post_video's except branch.
AdChunk(r) ==
    /\ ad.pc = "chunk"
    /\ ad.impl = "uploader" /\ r \notin {"id", "noid"} => ad.retry < MaxAdTries
    /\ LET a == [ad EXCEPT !.net = Append(@, "chunk"), !.got = Append(@, r)]
       IN ad' =
          IF r = "id" THEN AdEnd(a, TRUE, None)
          ELSE IF r = "noid" THEN AdEnd(a, FALSE, "no video ID")
          ELSE IF ad.impl = "uploader" THEN UploaderChunkError(a, r)
          ELSE IF ad.impl = "api" THEN ApiChunkError(a, r)
          ELSE AdEnd(a, FALSE, r)
    /\ UNCHANGED <<CAPTCHA_STORE, captcha, workers, now, accounts, posts, nextId, nextPost, issued, presented,
                   nonce, cb, resp, pub, uploader>>

\* The adapters of the other platforms. The *Integration classes return a result
\* with success True and a made-up post id; InstagramAPI.post_video and
\* FacebookAPI.post_video are "pass" and return None. None of them sends anything.
DemoIntegrations == {"instagram", "facebook", "linkedin", "tiktok"}
PassApis == {"instagram_api", "facebook_api"}

AdStub ==
    /\ ad.pc = "start"
    /\ ad.impl \in DemoIntegrations \cup PassApis
    /\ ad' = IF ad.impl \in DemoIntegrations
             THEN AdEnd(ad, TRUE, None)
             ELSE AdEnd(ad, FALSE, None)
    /\ UNCHANGED <<CAPTCHA_STORE, captcha, workers, now, accounts, posts, nextId, nextPost, issued, presented,
                   nonce, cb, resp, pub, uploader>>

FileSizes == { [gib |-> 0, rest |-> 1],
               [gib |-> MAX_FILE_SIZE_GIB, rest |-> 0],
               [gib |-> MAX_FILE_SIZE_GIB, rest |-> MaxOver],
               [gib |-> MAX_FILE_SIZE_GIB + MaxOver, rest |-> 0] }

TitleLens == {1, TitleLimit, TitleLimit + MaxOver}
DescLens == {0, DescriptionLimit, DescriptionLimit + MaxOver}
TagCounts == {0, TagLimit, TagLimit + MaxOver, IntegrationTagCut + MaxOver}

AdCalls ==
    { [pc |-> "start", impl |-> i, authed |-> au, exists |-> ex, size |-> sz,
       title |-> Str(tl), desc |-> Str(dl), tags |-> TagList(tc),
       body |-> NoBody, net |-> <<>>, got |-> <<>>, retry |-> 0, json |-> js,
       success |-> FALSE, error |-> None] :
      i \in Impls, au \in BOOLEAN, ex \in BOOLEAN, js \in BOOLEAN, sz \in FileSizes,
      tl \in TitleLens, dl \in DescLens, tc \in TagCounts }

\* Calls of the other platforms' adapters: their results do not depend on the
\* arguments.
StubCalls ==
    { [pc |-> "start", impl |-> i, authed |-> TRUE, exists |-> ex,
       size |-> [gib |-> 0, rest |-> 1],
       title |-> Str(1), desc |-> Str(0), tags |-> TagList(0),
       body |-> NoBody, net |-> <<>>, got |-> <<>>, retry |-> 0, json |-> TRUE,
       success |-> FALSE, error |-> None] :
      i \in DemoIntegrations \cup PassApis, ex \in BOOLEAN }

\* ------------------------------------------------- CAPTCHA (auth/utils.py)
CAPTCHA_TTL == 300      \* 'expires': time.time() + 300

\* Texts are drawn from ascii_uppercase + digits; an answer is any string.
CaptchaTexts == { <<"A", "1">>, <<"B", "1">> }
CaptchaInputs == { <<"a", "1">>, <<"A", "1">>, <<"B", "1">>, <<>> }

\* str.upper()
UpperChar(c) == IF c = "a" THEN "A" ELSE IF c = "b" THEN "B" ELSE c
Upper(str) == [k \in 1..Len(str) |-> UpperChar(str[k])]

\* generate_captcha: a fresh id (secrets.token_urlsafe) and an entry that expires
\* CAPTCHA_TTL seconds from now.
generate_captcha(text) ==
    /\ captcha.n < MaxCaptcha
    /\ CAPTCHA_STORE' = CAPTCHA_STORE \cup
          {[id |-> captcha.n + 1, text |-> text, expires |-> now + CAPTCHA_TTL]}
    /\ captcha' = [captcha EXCEPT !.n = @ + 1]
    /\ UNCHANGED <<workers, now, accounts, posts, nextId, nextPost, issued, presented,
                   nonce, cb, resp, pub, uploader, ad>>

\* A faulty verify that removes the entry only when the answer was right.
VerifyKeepsWrong(id, input) ==
    /\ LET es == {e \in CAPTCHA_STORE : e.id = id}
           e == CHOOSE e \in es : TRUE
           result == /\ es # {}
                     /\ ~(now > e.expires)
                     /\ Upper(e.text) = Upper(input)
       IN /\ CAPTCHA_STORE' = IF result \/ (es # {} /\ now > e.expires)
                              THEN CAPTCHA_STORE \ es ELSE CAPTCHA_STORE
          /\ captcha' = [captcha EXCEPT
                            !.used = IF es # {} THEN @ \cup {id} ELSE @,
                            !.last = [id |-> id, result |-> result,
                                      again |-> id \in captcha.used]]
    /\ UNCHANGED <<workers, now, accounts, posts, nextId, nextPost, issued, presented,
                   nonce, cb, resp, pub, uploader, ad>>

\* verify_captcha: False for an id not in the store; an expired entry is deleted
\* and the answer is False; otherwise the texts are compared in upper case and
\* the entry is deleted whatever the comparison gave.
verify_captcha(id, input) ==
    /\ LET es == {e \in CAPTCHA_STORE : e.id = id}
           e == CHOOSE e \in es : TRUE
           result == /\ es # {}
                     /\ ~(now > e.expires)
                     /\ Upper(e.text) = Upper(input)
       IN /\ CAPTCHA_STORE' = CAPTCHA_STORE \ es
          /\ captcha' = [captcha EXCEPT
                            !.used = IF es # {} THEN @ \cup {id} ELSE @,
                            !.last = [id |-> id, result |-> result,
                                      again |-> id \in captcha.used]]
    /\ UNCHANGED <<workers, now, accounts, posts, nextId, nextPost, issued, presented,
                   nonce, cb, resp, pub, uploader, ad>>

\* time.time() moves on by half the lifetime of a CAPTCHA.
CaptchaClock ==
    /\ now < MaxClock * (CAPTCHA_TTL \div 2)
    /\ now' = now + (CAPTCHA_TTL \div 2)
    /\ UNCHANGED <<CAPTCHA_STORE, captcha, workers, accounts, posts, nextId, nextPost, issued,
                   presented, nonce, cb, resp, pub, uploader, ad>>

\* ------------------------------------------------------------ the service
Init ==
    /\ workers = 1
    /\ now = 0
    /\ CAPTCHA_STORE = {}
    /\ captcha = NoCaptcha
    /\ accounts = {}
    /\ posts = {}
    /\ nextId = 1
    /\ nextPost = 1
    /\ issued = {}
    /\ presented = {}
    /\ nonce = 0
    /\ cb = [w \in Workers |-> CbIdle]
    /\ resp = [handler |-> "none", status |-> 0, detail |-> None]
    /\ pub = PubIdle
    /\ uploader = NoService
    /\ ad = [pc |-> "idle"]

\* token_expires_at as entered by hand: none, or the last instant of the clock
Expiries == {NoTime, MaxTime}

\* (user, video_id) of a publish request: one's own videos, and another user's
Requests == { <<"u1", "v1">>, <<"u1", "v2">>, <<"u2", "v3">>, <<"u2", "v1">> }

\* The linking service: OAuth, the one-step link handlers and account removal.
Next ==
    \/ \E u \in Users, p \in {"youtube", "linkedin"} : InitiateOAuth(u, p)
    \/ \E w \in Workers, code \in Codes \cup {None},
          state \in issued \cup Forged \cup {NoState}, error \in {None, "access_denied"} :
          CbReceive(w, code, state, error)
    \/ \E w \in Workers, ok \in BOOLEAN, at \in AccessToks :
          CbExchange(w, ok, IF ok THEN at ELSE None, IF ok THEN "rt1" ELSE None, 1)
    \/ \E w \in Workers, ch \in Channels \cup {None} : CbChannel(w, ch)
    \/ \E w \in Workers : CbQuery(w)
    \/ \E w \in Workers : CbCommit(w)
    \/ \E w \in Workers : CbReturn(w)
    \/ \E u \in Users, code \in Codes, state \in issued \cup {NoState},
          ok \in BOOLEAN, ch \in Channels \cup {None} :
          ExchangeToken(u, code, state, ok, "at2", "rt1", 1, ch)
    \/ \E u \in Users, name \in {None, "chan"}, ch \in Channels \cup {None} :
          ConnectSimple(u, name, ch)
    \/ \E u \in Users, p \in {"youtube", "myspace"}, pr \in {None, "UC1"} :
          AddManual(u, p, "T1", pr, "at1", None, NoTime)
    \/ \E u \in Users, id \in 1..MaxAccounts : DeleteAccount(u, id)

Spec == Init /\ [][Next]_vars

\* Two server processes on one database, each serving OAuth callbacks.
InitConc ==
    /\ workers = 2
    /\ now = 0
    /\ CAPTCHA_STORE = {}
    /\ captcha = NoCaptcha
    /\ accounts = {}
    /\ posts = {}
    /\ nextId = 1
    /\ nextPost = 1
    /\ issued = {}
    /\ presented = {}
    /\ nonce = 0
    /\ cb = [w \in Workers |-> CbIdle]
    /\ resp = [handler |-> "none", status |-> 0, detail |-> None]
    /\ pub = PubIdle
    /\ uploader = NoService
    /\ ad = [pc |-> "idle"]

NextConc ==
    \/ \E u \in Users : InitiateOAuth(u, "youtube")
    \/ \E w \in Workers, state \in issued : CbReceive(w, "code1", state, None)
    \/ \E w \in Workers, ok \in BOOLEAN, at \in AccessToks :
          CbExchange(w, ok, IF ok THEN at ELSE None, IF ok THEN "rt1" ELSE None, 1)
    \/ \E w \in Workers, ch \in Channels \cup {None} : CbChannel(w, ch)
    \/ \E w \in Workers : CbQuery(w)
    \/ \E w \in Workers : CbCommit(w)

SpecConc == InitConc /\ [][NextConc]_vars

\* Publishing: accounts entered by hand with every kind of token bundle, publish
\* requests, account removal, and the clock.
NextPublish ==
    \/ \E u \in Users, rt \in RefreshToks, exp \in Expiries :
          AddManual(u, "youtube", "T1", "UC1", "at1", rt, exp)
    \/ \E u \in Users, id \in 1..MaxAccounts : DeleteAccount(u, id)
    \/ \E r \in Requests, ps \in PlatformLists : PublishReceive(r[1], r[2], ps, NoTime)
    \/ PubSkip
    \/ PubResolve
    \/ \E ok \in BOOLEAN : PubAuthenticate(ok)
    \/ PubCheckFile
    \/ \E r \in ChunkResponses : PubNextChunk(r)
    \/ \E ok \in BOOLEAN : PubLibRefresh(ok, "at2")
    \/ PubLoopEnd
    \/ PublishReturn
    \/ \E r \in Requests : UploadRedirect(r[1], r[2])
    \/ Tick

SpecPublish == Init /\ [][NextPublish]_vars

\* One adapter-level publish call, for every implementation and input.
InitAdapter ==
    /\ workers = 1
    /\ now = 0
    /\ CAPTCHA_STORE = {}
    /\ captcha = NoCaptcha
    /\ accounts = {}
    /\ posts = {}
    /\ nextId = 1
    /\ nextPost = 1
    /\ issued = {}
    /\ presented = {}
    /\ nonce = 0
    /\ cb = [w \in Workers |-> CbIdle]
    /\ resp = [handler |-> "none", status |-> 0, detail |-> None]
    /\ pub = PubIdle
    /\ uploader = NoService
    /\ ad \in AdCalls \cup StubCalls

NextAdapter ==
    \/ \E c \in {"ok", "OSError"} : AdEnter(c)
    \/ \E r \in {"location", "nolocation", "status4xx"} : AdSession(r)
    \/ \E r \in ChunkResponses : AdChunk(r)
    \/ AdStub

SpecAdapter == InitAdapter /\ [][NextAdapter]_vars

\* The publish endpoint for a user whose YouTube account is linked, with the
\* handler's own progress assumed: once a request is being served, the process
\* takes the handler's next step, and a chunk request that was sent gets some
\* answer (a response, an error status or a timeout).
InitLinked ==
    /\ workers = 1
    /\ now = 0
    /\ CAPTCHA_STORE = {}
    /\ captcha = NoCaptcha
    /\ \E rt \in RefreshToks :
          accounts = {NewAccount(1, "u1", "youtube", "UC1", "T1", "at1", rt, NoTime)}
    /\ posts = {}
    /\ nextId = 2
    /\ nextPost = 1
    /\ issued = {}
    /\ presented = {}
    /\ nonce = 0
    /\ cb = [w \in Workers |-> CbIdle]
    /\ resp = [handler |-> "none", status |-> 0, detail |-> None]
    /\ pub = PubIdle
    /\ uploader = NoService
    /\ ad = [pc |-> "idle"]

NextServe ==
    \/ \E v \in {"v1", "v2"}, ps \in PlatformLists : PublishReceive("u1", v, ps, NoTime)
    \/ PubSkip
    \/ PubResolve
    \/ \E ok \in BOOLEAN : PubAuthenticate(ok)
    \/ PubCheckFile
    \/ \E r \in ChunkResponses : PubNextChunk(r)
    \/ \E ok \in BOOLEAN : PubLibRefresh(ok, "at2")
    \/ PubLoopEnd
    \/ PublishReturn

SpecPublishFair ==
    /\ InitLinked
    /\ [][NextServe]_vars
    /\ WF_vars(PubSkip)
    /\ WF_vars(PubResolve)
    /\ WF_vars(\E ok \in BOOLEAN : PubAuthenticate(ok))
    /\ WF_vars(PubCheckFile)
    /\ WF_vars(\E r \in ChunkResponses : PubNextChunk(r))
    /\ WF_vars(\E ok \in BOOLEAN : PubLibRefresh(ok, "at2"))
    /\ WF_vars(PubLoopEnd)
    /\ WF_vars(PublishReturn)

\* scheduled_for of a publish request: absent, the first instant of the clock, or
\* its last
SchedTimes == {NoTime, 0, MaxTime}

\* Publish requests with and without scheduled_for, for a user whose YouTube
\* account is linked, and the clock.
NextSchedule ==
    \/ \E v \in {"v1", "v2"}, ps \in PlatformLists, t \in SchedTimes :
          PublishReceive("u1", v, ps, t)
    \/ PubSkip
    \/ PubResolve
    \/ \E ok \in BOOLEAN : PubAuthenticate(ok)
    \/ PubCheckFile
    \/ \E r \in ChunkResponses : PubNextChunk(r)
    \/ \E ok \in BOOLEAN : PubLibRefresh(ok, "at2")
    \/ PubLoopEnd
    \/ PublishReturn
    \/ Tick

SpecSchedule == InitLinked /\ [][NextSchedule]_vars

\* The access token the provider hands out for a refresh token.
Refreshed(rt) == IF rt = "rt1" THEN "at1b" ELSE "at2b"

\* Two users, each with a linked YouTube account and tokens of their own, publish
\* through the one uploader instance of the process (get_youtube_uploader).
InitShared ==
    /\ workers = 1
    /\ now = 0
    /\ CAPTCHA_STORE = {}
    /\ captcha = NoCaptcha
    /\ \E r1 \in {None, "rt1"}, r2 \in {None, "rt2"} :
          accounts = {NewAccount(1, "u1", "youtube", "UC1", "T1", "at1", r1, NoTime),
                      NewAccount(2, "u2", "youtube", "UC2", "T2", "at2", r2, NoTime)}
    /\ posts = {}
    /\ nextId = 3
    /\ nextPost = 1
    /\ issued = {}
    /\ presented = {}
    /\ nonce = 0
    /\ cb = [w \in Workers |-> CbIdle]
    /\ resp = [handler |-> "none", status |-> 0, detail |-> None]
    /\ pub = PubIdle
    /\ uploader = NoService
    /\ ad = [pc |-> "idle"]

NextShared ==
    \/ \E r \in {<<"u1", "v1">>, <<"u2", "v3">>}, ps \in PlatformLists :
          PublishReceive(r[1], r[2], ps, NoTime)
    \/ PubSkip
    \/ PubResolve
    \/ \E ok \in BOOLEAN : PubAuthenticate(ok)
    \/ PubCheckFile
    \/ \E r \in ChunkResponses : PubNextChunk(r)
    \/ \E ok \in BOOLEAN : PubLibRefresh(ok, Refreshed(uploader.refresh_token))
    \/ PubLoopEnd
    \/ PublishReturn

SpecShared == InitShared /\ [][NextShared]_vars

\* The CAPTCHA store of one process: CAPTCHAs are issued, answered (with any id
\* ever issued or a made-up one) and left to expire.
NextCaptcha ==
    \/ \E t \in CaptchaTexts : generate_captcha(t)
    \/ \E id \in 1..(MaxCaptcha + 1), input \in CaptchaInputs : verify_captcha(id, input)
    \/ CaptchaClock

SpecCaptcha == Init /\ [][NextCaptcha]_vars

\* ----------------------------------------------------------------- claims
Distinct(seq) == \A i, j \in 1..Len(seq) : i # j => seq[i] # seq[j]

\* C1: when a publish request for a list of distinct platforms returns, the result
\* list has one entry per requested platform, and the entries name distinct
\* requested platforms.
C1_OneResultPerPlatform ==
    (pub.pc = "done" /\ Distinct(pub.platforms)) =>
        /\ Len(pub.results) = Len(pub.platforms)
        /\ Distinct([k \in 1..Len(pub.results) |-> pub.results[k].platform])
        /\ \A k \in 1..Len(pub.results) :
              \E j \in 1..Len(pub.platforms) : pub.results[k].platform = pub.platforms[j]

\* A platform create_posts has no publish code for, or one the user holds no
\* active credential for.
CannotPublish(user, platform) ==
    \/ platform # "youtube"
    \/ {a \in accounts : a.user_id = user /\ a.platform = platform /\ a.is_active} = {}

\* C2: when a publish request returns, every requested platform that cannot be
\* published to has a result of its own with status failed and a reason.
C2_UnpublishableIsReported ==
    pub.pc = "done" =>
        \A j \in 1..Len(pub.platforms) :
            CannotPublish(pub.user, pub.platforms[j]) =>
                \E k \in 1..Len(pub.results) :
                    /\ pub.results[k].platform = pub.platforms[j]
                    /\ pub.results[k].status = "failed"
                    /\ pub.results[k].error_message # None

\* C3: no two credential rows share (user, platform, platform-assigned account id).
C3_NoDuplicateCredential ==
    \A a, b \in accounts :
        (/\ a.user_id = b.user_id /\ a.platform = b.platform
         /\ a.primary_id # None /\ a.primary_id = b.primary_id) => a.id = b.id

\* C4: a callback that presents a state some earlier callback already presented
\* makes no request to the provider and, once answered, has been rejected (as
\* INVALID_STATE, or before that for an error parameter or a missing code).
C4_StateIsSingleUse ==
    \A w \in Workers :
        cb[w].replay =>
            /\ cb[w].calls = <<>>
            /\ cb[w].pc = "done" =>
                  cb[w].outcome \in {"invalid_state", "denied", "missing_code_or_state"}

UpstreamRefused(c) == c.outcome \in {"token_exchange_failed", "channel_fetch_failed"}

\* C5: of two concurrent callbacks that presented the same state and were both
\* answered by the provider, exactly one links and the other is rejected as
\* INVALID_STATE.
C5_OneOfTwoCallbacksLinks ==
    (/\ cb[1].pc = "done" /\ cb[2].pc = "done"
     /\ cb[1].state = cb[2].state
     /\ ~UpstreamRefused(cb[1]) /\ ~UpstreamRefused(cb[2])) =>
        \/ cb[1].outcome = "success" /\ cb[2].outcome = "invalid_state"
        \/ cb[2].outcome = "success" /\ cb[1].outcome = "invalid_state"

\* C6: after two concurrent upserts for the same (user, platform, account id) have
\* both committed, the key has exactly one row.
C6_ConcurrentUpsertOneRow ==
    (/\ cb[1].pc = "done" /\ cb[1].outcome = "success"
     /\ cb[2].pc = "done" /\ cb[2].outcome = "success"
     /\ cb[1].user = cb[2].user /\ cb[1].channel = cb[2].channel) =>
        Cardinality(MatchPrimary(accounts, cb[1].user, cb[1].channel)) = 1

\* C7: a YouTube publish call for an existing file above the size limit sends no
\* request and does not end in success.
C7_OversizeFailsBeforeNetwork ==
    (ad.pc # "idle" /\ ad.exists /\ OverLimit(ad.size)) =>
        /\ ad.net = <<>>
        /\ ad.pc = "done" => ~ad.success

\* C8: in a publish for a credential whose stored token has expired and that
\* holds a refresh token, every upload request comes after a refresh request and
\* does not carry the stored (expired) token.
C8_RefreshBeforeUpload ==
    (pub.pc # "idle" /\ pub.stale /\ pub.rt # None) =>
        \A k \in 1..Len(pub.net) :
            pub.net[k].kind = "upload" =>
                /\ \E j \in 1..(k - 1) : pub.net[j].kind = "refresh"
                /\ pub.net[k].token # pub.tok

\* C9: in a publish for a credential whose stored token has expired and that
\* holds no refresh token, no upload request is made and the post is not posted.
C9_StaleTokenNeverUploads ==
    (pub.pc # "idle" /\ pub.stale /\ pub.rt = None) =>
        /\ \A k \in 1..Len(pub.net) : pub.net[k].kind # "upload"
        /\ \A p \in posts : p.id = pub.post => p.status # "posted"

\* C10: the metadata a YouTube publish call has sent has a title of at most 100
\* characters and a description of at most 5000, each a prefix of the input, and
\* at most 50 tags.
C10_MetadataTruncated ==
    ad.net # <<>> =>
        /\ Len(ad.body.title) <= 100 /\ IsPrefix(ad.body.title, ad.title)
        /\ Len(ad.body.description) <= 5000 /\ IsPrefix(ad.body.description, ad.desc)
        /\ Len(ad.body.tags) <= 50

\* C11: a YouTube publish call lets no exception out, and a call that was answered
\* with a non-retriable upstream error ends with success = false and an error
\* text.
C11_FailureIsReturned ==
    /\ ad.pc # "raised"
    /\ (ad.pc = "done" /\ \E k \in 1..Len(ad.got) : ad.got[k] = "status4xx") =>
           (~ad.success /\ ad.error # None)

\* C12: a publish call of an adapter that uploads nothing (Instagram, Facebook,
\* LinkedIn, TikTok) ends with success = false and an error text.
C12_StubNeverSucceeds ==
    (ad.pc = "done" /\ ad.impl \in DemoIntegrations \cup PassApis) =>
        (~ad.success /\ ad.error # None)

C14_OneActivePerPlatform ==
    \A a, b \in accounts :
        (/\ a.user_id = b.user_id /\ a.platform = b.platform
         /\ a.is_active /\ b.is_active) => a.id = b.id

\* C15: a callback ends in success, with its credential written, only for a
\* state that the auth-URL endpoint issued.
C15_OnlyIssuedStateLinks ==
    \A w \in Workers :
        (cb[w].pc = "done" /\ cb[w].outcome = "success") => cb[w].state \in issued

C17_ErrorParamIsDenied ==
    [][\A w \in Workers :
          /\ cb'[w].error # None =>
                /\ cb'[w].pc = "done" /\ cb'[w].outcome = "denied" /\ cb'[w].calls = <<>>
                /\ cb[w].pc = "idle" => accounts' = accounts
          /\ (cb[w].error # None /\ cb'[w].pc = "idle") =>
                (accounts' = accounts /\ resp'.handler = "callback" /\ resp'.detail = "denied")]_vars

\* A denied callback has been answered, an issued state having been presented.
C17_Witness ==
    /\ resp.handler = "callback" /\ resp.detail = "denied"
    /\ presented # {}

\* Chunk requests sent again after a retriable failure (a retriable status or a
\* network error).
Retries(a) ==
    Cardinality({k \in 1..(Len(a.got) - 1) : a.got[k] \in {"status5xx", "neterror"}})

\* C18: a YouTube upload never sends more than MAX_RETRIES (3) retries of a chunk
\* after retriable failures.
C18_RetriesAreBounded == Retries(ad) <= 3

\* C19: in a YouTube upload a chunk response with a non-retriable error status is
\* the last response of the call: no chunk request follows it, and the call does
\* not end in success.
C19_NonRetriableFailsAtOnce ==
    \A k \in 1..Len(ad.got) :
        ad.got[k] = "status4xx" => (k = Len(ad.got) /\ (ad.pc = "done" => ~ad.success))

Uploading(id) == \E p \in posts : p.id = id /\ p.status = "uploading"
Terminal(id) == \E p \in posts : p.id = id /\ p.status \in {"posted", "failed"}

\* C20: every Post row a publish request has created reaches posted or failed,
\* whatever the provider answers, and no row is in uploading when the request
\* returns.
C20_PostReachesTerminal ==
    /\ [](pub.pc = "done" => \A p \in posts : p.status # "uploading")
    /\ \A id \in 1..MaxPosts : Uploading(id) ~> Terminal(id)

PostStatuses == {"pending", "uploading", "posted", "failed", "scheduled"}

\* The moves of the Post state machine, a row that stays as it is included.
StatusMove(from, to) ==
    \/ from = to
    \/ from = "scheduled" /\ to = "pending"
    \/ from = "pending" /\ to = "uploading"
    \/ from = "uploading" /\ to \in {"posted", "failed"}

\* C21: every step leaves every Post row with a status among pending, uploading,
\* posted, failed and scheduled, and changes the status of a row only along
\* scheduled -> pending -> uploading -> posted or failed; a posted or failed row
\* keeps its status.
C21_StatusLifecycle ==
    [][/\ \A q \in posts' : q.status \in PostStatuses
       /\ \A p \in posts, q \in posts' :
             p.id = q.id => StatusMove(p.status, q.status)]_vars

\* C22: in every committed state a posted Post has a platform post id, a post URL
\* and a posted-at time, a failed Post has an error message, and a Post that is
\* not posted has no platform post id.
C22_OutcomeFieldsMatchStatus ==
    \A p \in posts :
        /\ p.status = "posted" =>
              (p.platform_post_id # None /\ p.post_url # None /\ p.posted_at # NoTime)
        /\ p.status = "failed" => p.error_message # None
        /\ p.status # "posted" => p.platform_post_id = None

\* A request has returned and the table holds a posted row and a failed row.
C22_Witness ==
    /\ pub.pc = "idle" /\ resp.handler = "post"
    /\ \E p \in posts : p.status = "posted" /\ p.platform_post_id = "yt_id"
    /\ \E p \in posts : p.status = "failed" /\ p.error_message # None

\* C23: while the scheduled time of a publish request lies in the future, the
\* Post the request created is in status scheduled and no upload request has been
\* sent for it.
C23_ScheduledWaits ==
    (pub.pc # "idle" /\ pub.sched > now) =>
        /\ \A p \in posts : p.id = pub.post => p.status = "scheduled"
        /\ \A k \in 1..Len(pub.net) : pub.net[k].kind # "upload"

\* C24: a delete request removes the named credential and answers 200 only when
\* the caller owns it; for an id of no row or of another user's row it answers 404
\* and leaves the credential rows and the Post rows as they are.
C24_DeleteOnlyOwn ==
    [][\A u \in Users, id \in 1..MaxAccounts :
          DeleteAccount(u, id) =>
              IF \E a \in accounts : a.id = id /\ a.user_id = u
              THEN /\ resp'.status = 200
                   /\ accounts' = {a \in accounts : a.id # id}
              ELSE /\ resp'.status = 404
                   /\ accounts' = accounts /\ posts' = posts]_vars

\* A delete was answered 404 although every id a request can name has a row, so
\* it named another user's credential; that credential and its Post are in place.
C24_Witness ==
    /\ resp.handler = "delete" /\ resp.status = 404
    /\ \A id \in 1..MaxAccounts : \E a \in accounts : a.id = id
    /\ \A a \in accounts : \E p \in posts : p.account_id = a.id

\* C25: after every step each Post row references a credential row that exists,
\* and a step removes a Post row only by removing the credential it references.
C25_PostsFollowCredential ==
    [][/\ \A p \in posts' : \E a \in accounts' : a.id = p.account_id
       /\ \A p \in posts :
             (\A q \in posts' : q.id # p.id) =>
                 /\ \E a \in accounts : a.id = p.account_id
                 /\ \A a \in accounts' : a.id # p.account_id]_vars

\* Two Posts were created, a delete took one of them away with its credential,
\* and the other is still there.
C25_Witness ==
    /\ resp.handler = "delete" /\ resp.status = 200
    /\ nextPost = 3
    /\ Cardinality(posts) = 1 /\ Cardinality(accounts) = 1

\* A request is waiting for the provider's answer to its token request, its
\* channel request or a chunk request.
WaitingOnProvider ==
    \/ \E w \in Workers : cb[w].pc \in {"exchange", "channel"}
    \/ pub.pc \in {"chunk", "refresh"}

\* C26: while a request waits for a provider call to answer, the service can
\* still serve a request that has nothing to do with it (here: an account
\* removal by any user).
C26_StuckCallDoesNotBlock ==
    WaitingOnProvider =>
        ENABLED (\E u \in Users, id \in 1..MaxAccounts : DeleteAccount(u, id))

\* The failures create_posts detects before it adds a Post row.
BeforePostRow == {"YouTube error: Video not found",
                  "YouTube error: No YouTube account connected"}

\* C27: every result of a publish request either carries the id of a Post row,
\* which has the result's status, or was produced before any Post row was added
\* (missing video, missing credential).
C27_ResultCarriesPostId ==
    \A k \in 1..Len(pub.results) :
        LET r == pub.results[k]
        IN /\ r.id # NoRow => \E p \in posts : p.id = r.id /\ p.status = r.status
           /\ r.id = NoRow => r.error_message \in BeforePostRow

\* C28: every request a publish sends to the provider carries a token of the
\* requesting user's own account: an upload request the account's access token or
\* the token refreshed from its refresh token, a refresh request its refresh
\* token.
C28_UploadUsesOwnTokens ==
    pub.pc # "idle" =>
        \A k \in 1..Len(pub.net) :
            \E a \in ActiveYouTube(accounts, pub.user) :
                IF pub.net[k].kind = "upload"
                THEN pub.net[k].token \in {a.access_token, Refreshed(a.refresh_token)}
                ELSE pub.net[k].token = a.refresh_token

\* The second user's upload request is out with that user's token, after the
\* first user's publish went through the same uploader.
C28_Witness ==
    /\ pub.user = "u2"
    /\ \E k \in 1..Len(pub.net) : pub.net[k].kind = "upload" /\ pub.net[k].token = "at2"
    /\ uploader.token = "at2"
    /\ \E p \in posts : p.account_id = 1 /\ p.status = "posted"

\* The status each handler raises for a precondition failure it detects itself.
RaisedStatus(detail) ==
    IF detail = "Video not found" THEN 404 ELSE 400

LocalFailures == {"Video not found", "No YouTube account connected",
                  "Failed to exchange code for tokens"}

\* C29: a step in which the redirect handler or the exchange handler answers
\* with one of its own precondition failures answers with the status raised for
\* it (404 for an unknown video, 400 otherwise) and adds no Post or credential
\* row.
C29_LocalFailureKeepsStatus ==
    [][(/\ resp' # resp
        /\ resp'.handler \in {"redirect", "exchange"}
        /\ resp'.detail \in LocalFailures) =>
           /\ resp'.status = RaisedStatus(resp'.detail)
           /\ posts' = posts /\ accounts' = accounts]_vars

\* C30: an id for which verify_captcha has been called while it was stored is no
\* longer in the store, and a verify call for such an id returns false; so an id
\* verifies successfully at most once.
C30_CaptchaIsSingleUse ==
    /\ \A e \in CAPTCHA_STORE : e.id \notin captcha.used
    /\ captcha.last.again => ~captcha.last.result

\* A verify call has been made again for an id that was verified before, every
\* id issued having been verified and the store being empty.
C30_Witness ==
    /\ captcha.last.again /\ captcha.last.id \in captcha.used
    /\ captcha.used = 1..MaxCaptcha
    /\ CAPTCHA_STORE = {}

====
